---- MODULE Spec2Model ----
(***************************************************************************)
(* Model of the Matrix media download client (client/download.ts):        *)
(* parseMXCUrl, getMediaEndpointPrefix, the shared reference-counted      *)
(* undici Pool (getSharedAgent / releaseDownloadAgent) and the retry loop *)
(* of downloadContent_v2, and of resolveMatrixSessionKey.                  *)
(*                                                                         *)
(* JavaScript strings that the code takes apart (MXC URLs, version        *)
(* strings) are sequences of one-character strings.  Error messages are   *)
(* sequences of tokens; String.includes(needle) is "some token equals     *)
(* needle".  Each action is one synchronous segment of the code between   *)
(* two awaits.                                                             *)
(***************************************************************************)
EXTENDS Integers, Sequences, FiniteSets, TLC

\* ------------------------------------------------------------------ bounds
MaxRetriesBound == 6     \* largest maxRetries argument tried (Spec)
MaxCalls == 2            \* downloadContent_v2 calls per behaviour (Spec)
MaxReleases == 1         \* releaseDownloadAgent calls per behaviour (Spec)
PoolMaxRetries == 2      \* largest maxRetries argument tried (SpecPool)
PoolMaxCalls == 3        \* downloadContent_v2 calls per behaviour (SpecPool)
PoolMaxReleases == 4     \* releaseDownloadAgent calls per behaviour (SpecPool)
ConcMaxRetries == 2      \* largest maxRetries argument tried (SpecConc)
ConcMaxCalls == 2        \* downloadContent_v2 calls per behaviour (SpecConc)
ConcMaxReleases == 1     \* releaseDownloadAgent calls per behaviour (SpecConc)
ReqMaxRetries == 2       \* largest maxRetries argument tried (SpecProbe, SpecRequest, SpecParse)
ReqMaxCalls == 1         \* downloadContent_v2 calls per behaviour (the same three)
ReqMaxReleases == 1      \* releaseDownloadAgent calls per behaviour (the same three)
MaxVersions == 2         \* longest versions list of a probe answer (SpecProbe)
MaxBytesBound == 2       \* largest maxBytes of downloadMatrixMedia (SpecMedia)
MaxTail == 3             \* most characters after the scheme of an MXC input (SpecParse)

\* --------------------------------------------------------------- constants
BackoffBaseMs == 1000
BackoffCapMs == 8000
DefaultContentType == "application/octet-stream"
ModernPrefix == "/_matrix/client/v1/media"
LegacyPrefix == "/_matrix/media/v3"
NotValidMXC == "Not a valid MXC URI"
MissingDomain == "Missing domain component in MXC URI"
MissingMediaId == "Missing mediaId component in MXC URI"

\* JavaScript null / undefined for string-valued slots
JsNull == <<"<null>">>
JsUndefined == <<"<undefined>">>
Undefined == "<undefined>"
NoPool == 0              \* sharedAgent === null

\* ----------------------------------------------------------- string tools
Min(a, b) == IF a <= b THEN a ELSE b

RECURSIVE Pow2(_)
Pow2(n) == IF n <= 0 THEN 1 ELSE 2 * Pow2(n - 1)

\* String.prototype.toLowerCase on one character
LowerChar(c) ==
  CASE c = "M" -> "m"
    [] c = "X" -> "x"
    [] c = "C" -> "c"
    [] c = "D" -> "d"
    [] c = "I" -> "i"
    [] OTHER -> c

\* mutant: the case of the input is kept
toLowerCase_Identity(s) == s

toLowerCase(s) == [k \in 1..Len(s) |-> LowerChar(s[k])]

startsWith(s, pre) ==
  /\ Len(s) >= Len(pre)
  /\ \A k \in 1..Len(pre) : s[k] = pre[k]

\* String.prototype.slice(n) for 0 <= n
slice(s, n) == IF n >= Len(s) THEN <<>> ELSE SubSeq(s, n + 1, Len(s))

\* index of the first sep in s, 0 when there is none
FirstIndexOf(s, sep) ==
  IF \E k \in 1..Len(s) : s[k] = sep
    THEN CHOOSE k \in 1..Len(s) : s[k] = sep /\ \A j \in 1..(k - 1) : s[j] # sep
    ELSE 0

\* String.prototype.split(sep): the list of segments, at least one
RECURSIVE split(_, _)
split(s, sep) ==
  LET k == FirstIndexOf(s, sep) IN
    IF k = 0 THEN <<s>>
    ELSE <<SubSeq(s, 1, k - 1)>> \o split(slice(s, k), sep)

\* Array.prototype.join(sep)
RECURSIVE join(_, _)
join(parts, sep) ==
  IF Len(parts) = 0 THEN <<>>
  ELSE IF Len(parts) = 1 THEN parts[1]
  ELSE parts[1] \o <<sep>> \o join(Tail(parts), sep)

\* message.includes(needle) on token sequences
Includes(msg, needle) == \E k \in 1..Len(msg) : msg[k] = needle

\* ------------------------------------------------------------ parseMXCUrl
MxcPrefix == <<"m", "x", "c", ":", "/", "/">>

ParseOk(domain, mediaId) ==
  [ok |-> TRUE, domain |-> domain, mediaId |-> mediaId, error |-> ""]
ParseFail(msg) ==
  [ok |-> FALSE, domain |-> <<>>, mediaId |-> <<>>, error |-> msg]

\* mutant: the resource id is checked before the authority
parseMXCUrl_MediaIdFirst(mxcUrl) ==
  IF mxcUrl \in {JsNull, JsUndefined} \/ ~startsWith(toLowerCase(mxcUrl), MxcPrefix)
    THEN ParseFail(NotValidMXC)
  ELSE
    LET parts == split(slice(mxcUrl, Len(MxcPrefix)), "/")
        domain == parts[1]
        mediaId == join(Tail(parts), "/")
    IN  IF mediaId = <<>> THEN ParseFail(MissingMediaId)
        ELSE IF domain = <<>> THEN ParseFail(MissingDomain)
        ELSE ParseOk(domain, mediaId)

\* mutant: an empty resource id is let through
parseMXCUrl_NoMediaIdCheck(mxcUrl) ==
  IF mxcUrl \in {JsNull, JsUndefined} \/ ~startsWith(toLowerCase(mxcUrl), MxcPrefix)
    THEN ParseFail(NotValidMXC)
  ELSE
    LET parts == split(slice(mxcUrl, Len(MxcPrefix)), "/")
        domain == parts[1]
        mediaId == join(Tail(parts), "/")
    IN  IF domain = <<>> THEN ParseFail(MissingDomain)
        ELSE ParseOk(domain, mediaId)

\* mutant: the lower-cased input is taken apart
parseMXCUrl_LowerCased(mxcUrl) ==
  IF mxcUrl \in {JsNull, JsUndefined} \/ ~startsWith(toLowerCase(mxcUrl), MxcPrefix)
    THEN ParseFail(NotValidMXC)
  ELSE
    LET parts == split(slice(toLowerCase(mxcUrl), Len(MxcPrefix)), "/")
        domain == parts[1]
        mediaId == join(Tail(parts), "/")
    IN  IF domain = <<>> THEN ParseFail(MissingDomain)
        ELSE IF mediaId = <<>> THEN ParseFail(MissingMediaId)
        ELSE ParseOk(domain, mediaId)

\* lines 24-40; mxcUrl?.toLowerCase()?.startsWith is undefined for null and
\* undefined
parseMXCUrl(mxcUrl) ==
  IF mxcUrl \in {JsNull, JsUndefined} \/ ~startsWith(toLowerCase(mxcUrl), MxcPrefix)
    THEN ParseFail(NotValidMXC)
  ELSE
    LET parts == split(slice(mxcUrl, Len(MxcPrefix)), "/")
        domain == parts[1]
        mediaId == join(Tail(parts), "/")
    IN  IF domain = <<>> THEN ParseFail(MissingDomain)
        ELSE IF mediaId = <<>> THEN ParseFail(MissingMediaId)
        ELSE ParseOk(domain, mediaId)

\* ------------------------------------------------- getMediaEndpointPrefix
Digits19 == {"1", "2", "3", "4", "5", "6", "7", "8", "9"}
Digits09 == Digits19 \cup {"0"}
Digits29 == Digits19 \ {"1"}

\* v.match(/^v1\.(1[1-9]|[2-9][0-9])$/)
MatchesV111(v) ==
  /\ Len(v) = 5
  /\ v[1] = "v" /\ v[2] = "1" /\ v[3] = "."
  /\ \/ v[4] = "1" /\ v[5] \in Digits19
     \/ v[4] \in Digits29 /\ v[5] \in Digits09

\* The outcome of GET /_matrix/client/versions is [kind, versions]:
\*   "fetchError"  fetch rejects
\*   "notOk"       response.ok is false
\*   "jsonError"   response.json() rejects
\*   "body"        the parsed body, versions being its versions member:
\*                 type "absent" (missing or falsy), "other" (truthy and not
\*                 an array) or "list"; an item of a list is a string or
\*                 NotAString
NotAString == <<"<number>">>
NoVersions == [type |-> "absent", items |-> <<>>]
OtherVersions == [type |-> "other", items |-> <<>>]
ListVersions(items) == [type |-> "list", items |-> items]
ProbeFetchError == [kind |-> "fetchError", versions |-> NoVersions]
ProbeNotOk == [kind |-> "notOk", versions |-> NoVersions]
ProbeJsonError == [kind |-> "jsonError", versions |-> NoVersions]
ProbeBody(versions) == [kind |-> "body", versions |-> versions]
NoProbe == [kind |-> "none", versions |-> NoVersions]

\* mutant: items that are not strings are skipped
RECURSIVE some_SkipNonStrings(_)
some_SkipNonStrings(items) ==
  IF items = <<>> THEN "false"
  ELSE IF Head(items) = NotAString THEN some_SkipNonStrings(Tail(items))
  ELSE IF MatchesV111(Head(items)) THEN "true"
  ELSE some_SkipNonStrings(Tail(items))

\* supportedVersions.some((v) => v.match(...)): "true", "false", or "throw"
\* when an item without a match method is reached (line 66)
RECURSIVE some(_)
some(items) ==
  IF items = <<>> THEN "false"
  ELSE IF Head(items) = NotAString THEN "throw"
  ELSE IF MatchesV111(Head(items)) THEN "true"
  ELSE some(Tail(items))

\* lines 51-78: everything inside the try falls back to the legacy prefix,
\* new URL(..., homeserverUrl) included
getMediaEndpointPrefix(urlOk, probe) ==
  IF ~urlOk THEN LegacyPrefix
  ELSE IF probe.kind # "body" THEN LegacyPrefix
  ELSE LET supportedVersions ==
             IF probe.versions.type = "absent" THEN ListVersions(<<>>)
             ELSE probe.versions
       IN  IF supportedVersions.type = "other" THEN LegacyPrefix
           ELSE IF some(supportedVersions.items) = "true" THEN ModernPrefix
           ELSE LegacyPrefix

V1_1 == <<"v", "1", ".", "1">>
V1_11 == <<"v", "1", ".", "1", "1">>
V1_100 == <<"v", "1", ".", "1", "0", "0">>

\* every answer of the versions endpoint that is tried
VersionItems ==
  { <<"v", "1", ".", "1", "0">>, V1_11, <<"v", "1", ".", "2", "0">>, V1_100,
    <<"v", "2", ".", "1", "1">>, NotAString }
RECURSIVE SeqsUpTo(_, _)
SeqsUpTo(S, n) ==
  IF n = 0 THEN {<<>>}
  ELSE LET shorter == SeqsUpTo(S, n - 1)
       IN  shorter \cup {Append(q, x) : q \in shorter, x \in S}
ProbeOutcomes ==
  {ProbeFetchError, ProbeNotOk, ProbeJsonError, ProbeBody(NoVersions), ProbeBody(OtherVersions)}
    \cup {ProbeBody(ListVersions(items)) : items \in SeqsUpTo(VersionItems, MaxVersions)}

\* ------------------------------------------------------------ URL origins
UrlA == "https://a.example"
UrlAPath == "https://a.example/base"
UrlB == "https://b.example"
UrlFtp == "ftp://c.example"
UrlEmpty == ""           \* client.homeserverUrl || ""  (monitor/media.ts)
InvalidURL == "<invalid>"

\* new URL(u).origin ; InvalidURL when the constructor throws TypeError
UrlOrigin(u) ==
  CASE u = UrlA -> "https://a.example"
    [] u = UrlAPath -> "https://a.example"
    [] u = UrlB -> "https://b.example"
    [] u = UrlFtp -> "ftp://c.example"
    [] OTHER -> InvalidURL

\* new Pool(origin, ...) accepts http: and https: origins only and throws
\* InvalidArgumentError for any other protocol
PoolAccepts(origin) == origin \in {"https://a.example", "https://b.example"}

\* ------------------------------------------------------ the request target
\* the characters encodeURIComponent leaves alone
Unreserved ==
  {"a", "b", "c", "d", "e", "f", "g", "h", "i", "j", "k", "l", "m", "n", "o",
   "p", "q", "r", "s", "t", "u", "v", "w", "x", "y", "z",
   "A", "B", "C", "D", "E", "F", "G", "H", "I", "J", "K", "L", "M", "N", "O",
   "P", "Q", "R", "S", "T", "U", "V", "W", "X", "Y", "Z"}
  \cup Digits09 \cup {"-", "_", ".", "!", "~", "*", "'", "(", ")"}

\* the escape of one reserved ASCII character
PercentEncoded(c) ==
  CASE c = "/" -> <<"%", "2", "F">>
    [] c = ":" -> <<"%", "3", "A">>
    [] c = "?" -> <<"%", "3", "F">>
    [] c = "#" -> <<"%", "2", "3">>
    [] c = "%" -> <<"%", "2", "5">>
    [] c = " " -> <<"%", "2", "0">>
    [] c = "@" -> <<"%", "4", "0">>
    [] c = "$" -> <<"%", "2", "4">>
    [] c = "&" -> <<"%", "2", "6">>
    [] c = "=" -> <<"%", "3", "D">>
    [] c = "+" -> <<"%", "2", "B">>

RECURSIVE encodeURIComponent(_)
encodeURIComponent(str) ==
  IF str = <<>> THEN <<>>
  ELSE (IF Head(str) \in Unreserved THEN <<Head(str)>> ELSE PercentEncoded(Head(str)))
       \o encodeURIComponent(Tail(str))

\* A path is the sequence of its segments; a literal segment is one token.
EndpointSegments(endpoint) ==
  IF endpoint = ModernPrefix
    THEN << <<"_matrix">>, <<"client">>, <<"v1">>, <<"media">> >>
    ELSE << <<"_matrix">>, <<"media">>, <<"v3">> >>

\* `${endpoint}/download/${encodeURIComponent(domain)}/${encodeURIComponent(mediaId)}`
DownloadPath(endpoint, domain, mediaId) ==
  EndpointSegments(endpoint)
    \o << <<"download">>, encodeURIComponent(domain), encodeURIComponent(mediaId) >>

\* new URL(path, base).pathname for an absolute path: the base path is
\* dropped and the URL parser removes "." and ".." segments
RECURSIVE RemoveDotSegments(_, _)
RemoveDotSegments(todo, out) ==
  IF todo = <<>> THEN out
  ELSE LET seg == Head(todo)
           last == Len(todo) = 1
           popped == IF out = <<>> THEN out ELSE SubSeq(out, 1, Len(out) - 1)
       IN  IF seg = <<".", ".">>
             THEN RemoveDotSegments(Tail(todo), IF last THEN Append(popped, <<>>) ELSE popped)
           ELSE IF seg = <<".">>
             THEN RemoveDotSegments(Tail(todo), IF last THEN Append(out, <<>>) ELSE out)
           ELSE RemoveDotSegments(Tail(todo), Append(out, seg))

pathname(segments) == RemoveDotSegments(segments, <<>>)

\* the allowRemote argument: "true", "false", Undefined when omitted, or the
\* options object that monitor/media.ts passes in this position
OptionsObject == "<options>"
DefaultTrue(v) == IF v = Undefined THEN "true" ELSE v

\* url.search after lines 188-190
search(allowRemote) ==
  IF DefaultTrue(allowRemote) # "true" THEN "?allow_remote=false" ELSE ""

NoPath == [pathname |-> <<>>, search |-> ""]

\* requestOptions.path: url.pathname + url.search (lines 184-190, 211)
RequestPath(endpoint, domain, mediaId, allowRemote) ==
  [pathname |-> pathname(DownloadPath(endpoint, domain, mediaId)),
   search |-> search(allowRemote)]

\* ----------------------------------------------------- the shared Pool
\* Pool state: [sharedAgent, agentRefCount, pools]; pools[i] is the i-th
\* Pool object ever constructed, [origin, state], state in
\* {"open", "closing", "closed", "closeFailed"}.
PoolState(sa, rc, ps) == [sharedAgent |-> sa, agentRefCount |-> rc, pools |-> ps]

\* mutant: a pool per origin, the existing pool is replaced when the origin differs
getSharedAgent_PerOrigin(st, homeserverUrl) ==
  IF st.sharedAgent # NoPool /\ st.pools[st.sharedAgent].origin = UrlOrigin(homeserverUrl)
    THEN [st |-> PoolState(st.sharedAgent, st.agentRefCount + 1, st.pools),
          agent |-> st.sharedAgent, threw |-> FALSE]
  ELSE IF UrlOrigin(homeserverUrl) = InvalidURL \/ ~PoolAccepts(UrlOrigin(homeserverUrl))
    THEN [st |-> st, agent |-> NoPool, threw |-> TRUE]
  ELSE
    LET ps == Append(st.pools, [origin |-> UrlOrigin(homeserverUrl), state |-> "open"])
    IN  [st |-> PoolState(Len(ps), 1, ps), agent |-> Len(ps), threw |-> FALSE]

\* mutant: the existing pool is returned without counting the reference
getSharedAgent_NoCount(st, homeserverUrl) ==
  IF st.sharedAgent # NoPool
    THEN [st |-> st, agent |-> st.sharedAgent, threw |-> FALSE]
  ELSE IF UrlOrigin(homeserverUrl) = InvalidURL \/ ~PoolAccepts(UrlOrigin(homeserverUrl))
    THEN [st |-> st, agent |-> NoPool, threw |-> TRUE]
  ELSE
    LET ps == Append(st.pools, [origin |-> UrlOrigin(homeserverUrl), state |-> "open"])
    IN  [st |-> PoolState(Len(ps), 1, ps), agent |-> Len(ps), threw |-> FALSE]

getSharedAgent(st, homeserverUrl) ==
  IF st.sharedAgent # NoPool
    THEN [st |-> PoolState(st.sharedAgent, st.agentRefCount + 1, st.pools),
          agent |-> st.sharedAgent, threw |-> FALSE]
  ELSE IF UrlOrigin(homeserverUrl) = InvalidURL \/ ~PoolAccepts(UrlOrigin(homeserverUrl))
    THEN [st |-> st, agent |-> NoPool, threw |-> TRUE]
  ELSE
    LET ps == Append(st.pools, [origin |-> UrlOrigin(homeserverUrl), state |-> "open"])
    IN  [st |-> PoolState(Len(ps), 1, ps), agent |-> Len(ps), threw |-> FALSE]

\* mutant: the pool is closed only below zero (< instead of <=)
releaseDownloadAgent_Strict(st) ==
  LET rc == st.agentRefCount - 1 IN
    IF rc < 0 /\ st.sharedAgent # NoPool
      THEN PoolState(NoPool, 0,
                     [st.pools EXCEPT ![st.sharedAgent].state = "closing"])
      ELSE PoolState(st.sharedAgent, rc, st.pools)

releaseDownloadAgent(st) ==
  LET rc == st.agentRefCount - 1 IN
    IF rc <= 0 /\ st.sharedAgent # NoPool
      THEN PoolState(NoPool, 0,
                     [st.pools EXCEPT ![st.sharedAgent].state = "closing"])
      ELSE PoolState(st.sharedAgent, rc, st.pools)

\* mutant: close() without the .catch handler
closeRejected_Unhandled(warned, unhandled) == [warned |-> warned, unhandled |-> unhandled + 1]

\* sharedAgent.close().catch(err => LogService.warn(...)): what a rejected
\* close() does to (warnings logged, unhandled rejections)
closeRejected(warned, unhandled) == [warned |-> warned + 1, unhandled |-> unhandled]


\* ------------------------------------------------ responses of the server
\* What agent.request() and the reading of the body deliver on one attempt:
\*   kind "error"     agent.request rejected (transport error)
\*   kind "response"  a response with statusCode; bodyOk = FALSE when
\*                    reading the body (body.text() / for await) rejects
TransportError ==
  [kind |-> "error", status |-> 0, ctype |-> Undefined, chunks |-> <<>>,
   body |-> <<>>, bodyOk |-> FALSE]
NoResponse ==
  [kind |-> "none", status |-> 0, ctype |-> Undefined, chunks |-> <<>>,
   body |-> <<>>, bodyOk |-> FALSE]

HttpFailure(status, body, bodyOk) ==
  [kind |-> "response", status |-> status, ctype |-> Undefined, chunks |-> <<>>,
   body |-> body, bodyOk |-> bodyOk]
HttpSuccess(status, ctype, chunks, bodyOk) ==
  [kind |-> "response", status |-> status, ctype |-> ctype, chunks |-> chunks,
   body |-> <<>>, bodyOk |-> bodyOk]

ContentTypes == {Undefined, "", "image/png"}
ChunkLists == {<<>>, <<<<1>>>>, <<<<1, 2>>, <<3>>>>}

Responses ==
  { TransportError,
    HttpFailure(199, <<>>, TRUE),
    HttpFailure(300, <<"boom">>, TRUE),
    HttpFailure(500, <<NotValidMXC>>, TRUE),
    HttpFailure(500, <<>>, FALSE),
    HttpSuccess(299, "image/png", <<<<1>>>>, TRUE),
    HttpSuccess(200, "image/png", <<<<1>>>>, FALSE) }
  \cup { HttpSuccess(200, c, ch, TRUE) : c \in ContentTypes, ch \in ChunkLists }

\* Buffer.concat(chunks)
RECURSIVE BufferConcat(_)
BufferConcat(chunks) ==
  IF Len(chunks) = 0 THEN <<>> ELSE chunks[1] \o BufferConcat(Tail(chunks))

\* response.statusCode < 200 || response.statusCode >= 300
IsHttpError(status) == status < 200 \/ status >= 300

\* `HTTP ${statusCode}: ${body || "Unknown error"}`
HttpErrorMessage(status, body) ==
  <<"HTTP", ToString(status), ":">> \o (IF body = <<>> THEN <<"Unknown error">> ELSE body)

\* mutant: ?? instead of ||, an empty header is kept
contentTypeOf_Nullish(ctype) ==
  IF ctype = Undefined THEN DefaultContentType ELSE ctype

\* (headers["content-type"] as string) || "application/octet-stream"
contentTypeOf(ctype) ==
  IF ctype = Undefined \/ ctype = "" THEN DefaultContentType ELSE ctype

\* `Failed to download after ${maxRetries} attempts: ${lastError.message}`
ExhaustedMessage(maxRetries, lastError) ==
  <<"Failed to download after", ToString(maxRetries), "attempts:">> \o lastError

\* mutant: the backoff without its cap
RetryDelay_Uncapped(attempt) == BackoffBaseMs * Pow2(attempt - 1)

\* Math.min(1000 * Math.pow(2, attempt - 1), 8000)
RetryDelay(attempt) == Min(BackoffBaseMs * Pow2(attempt - 1), BackoffCapMs)

\* Error messages of the runtime
ConnectFailed == <<"connect ECONNREFUSED">>
BodyFailed == <<"terminated">>
InvalidUrlMessage == <<"Invalid URL">>
InvalidProtocolMessage == <<"Invalid URL protocol">>
UnknownReason == <<"Download failed for unknown reason">>

\* ------------------------------------------------------------------ state
VARIABLES
  sharedAgent,     \* index into pools of the singleton, or NoPool
  agentRefCount,   \* the module-level reference count
  pools,           \* every Pool constructed so far
  d,               \* d[p]: the downloadContent_v2 call of caller p
  calls,           \* downloadContent_v2 calls started
  nAcq,            \* getSharedAgent calls that returned a pool
  nRel,            \* releaseDownloadAgent calls
  matched,         \* every release so far was preceded by its acquisition
  warned,          \* "Error closing agent" warnings logged
  unhandled,       \* rejections that escaped as unhandled
  sk,              \* the last evaluation of resolveMatrixSessionKey
  sm,              \* the last evaluation of summarizeMatrixRawEvent
  mediaCall        \* the downloadMatrixMedia call

vars == <<sharedAgent, agentRefCount, pools, d, calls, nAcq, nRel, matched,
          warned, unhandled, sk, sm, mediaCall>>

poolVars == <<sharedAgent, agentRefCount, pools>>

Procs == {1}

NoOutcome == [kind |-> "none", message |-> <<>>, data |-> <<>>, contentType |-> ""]
Result(data, contentType) ==
  [kind |-> "result", message |-> <<>>, data |-> data, contentType |-> contentType]
Thrown(message) ==
  [kind |-> "error", message |-> message, data |-> <<>>, contentType |-> ""]

\* the defaults of the parameters timeoutMs and maxRetries (lines 156-157)
DefaultTimeoutMs == 30000
DefaultMaxRetries == 3

IdleCall ==
  [pc |-> "idle", mxcUrl |-> JsNull, homeserverUrl |-> UrlEmpty,
   allowRemote |-> Undefined, maxRetries |-> 0,
   mxcComponents |-> ParseFail(""), probe |-> NoProbe, path |-> NoPath,
   endpoint |-> "", agent |-> NoPool, attempt |-> 0, lastError |-> <<>>,
   probes |-> 0, nReq |-> 0, sleeps |-> <<>>, response |-> NoResponse,
   outcome |-> NoOutcome, timeoutMs |-> DefaultTimeoutMs, requests |-> <<>>]

CurrentPools == PoolState(sharedAgent, agentRefCount, pools)

\* ---------------------------------------------- downloadContent_v2, steps
\* requestOptions is built and agent.request(requestOptions) issued (lines
\* 209-225); requests lists the options and the pool of every request
IssueRequest(r) ==
  [r EXCEPT !.pc = "request", !.nReq = @ + 1,
            !.requests = Append(@, [method |-> "GET", path |-> r.path, agent |-> r.agent])]

\* a throw or return that ends the call
Finish(r, outcome) == [r EXCEPT !.pc = "done", !.outcome = outcome]

\* mutant: the parse error is logged and the call goes on
AfterParse_NoRethrow(r, parsed) ==
  [r EXCEPT !.pc = "probe", !.probes = 1, !.mxcComponents = parsed]

\* the try/catch around parseMXCUrl (lines 167-181): rethrow, or go on to
\* the version probe
AfterParse(r, parsed) ==
  IF parsed.ok
    THEN [r EXCEPT !.pc = "probe", !.probes = 1, !.mxcComponents = parsed]
    ELSE Finish(r, Thrown(<<parsed.error>>))

\* mutant: the backoff sleep is cut to the caller's timeout budget
LoopHead_TimeoutCapsDelay(r) ==
  IF r.attempt < r.maxRetries
    THEN IF r.attempt > 0
           THEN [r EXCEPT !.pc = "sleep",
                          !.sleeps = Append(@, Min(RetryDelay(r.attempt), r.timeoutMs))]
           ELSE IssueRequest(r)
    ELSE Finish(r, Thrown(IF r.lastError # <<>> THEN r.lastError ELSE UnknownReason))

\* top of the for loop (line 198) up to the next await
LoopHead(r) ==
  IF r.attempt < r.maxRetries
    THEN IF r.attempt > 0
           THEN [r EXCEPT !.pc = "sleep", !.sleeps = Append(@, RetryDelay(r.attempt))]
           ELSE IssueRequest(r)
    ELSE Finish(r, Thrown(IF r.lastError # <<>> THEN r.lastError ELSE UnknownReason))

\* mutant: the loop goes round without attempt++
CatchBlock_SameAttempt(r, message) ==
  LET r1 == [r EXCEPT !.lastError = message] IN
    IF Includes(message, NotValidMXC)
      THEN Finish(r1, Thrown(message))
    ELSE IF r.attempt = r.maxRetries - 1
      THEN Finish(r1, Thrown(ExhaustedMessage(r.maxRetries, message)))
    ELSE LoopHead(r1)

\* mutant: the last failure leaves the loop by its condition
CatchBlock_NoExhaust(r, message) ==
  LET r1 == [r EXCEPT !.lastError = message] IN
    IF Includes(message, NotValidMXC)
      THEN Finish(r1, Thrown(message))
    ELSE LoopHead([r1 EXCEPT !.attempt = @ + 1])

\* mutant: a retry asks the server for its versions again
CatchBlock_Reprobe(r, message) ==
  LET r1 == [r EXCEPT !.lastError = message] IN
    IF Includes(message, NotValidMXC)
      THEN Finish(r1, Thrown(message))
    ELSE IF r.attempt = r.maxRetries - 1
      THEN Finish(r1, Thrown(ExhaustedMessage(r.maxRetries, message)))
    ELSE [r1 EXCEPT !.attempt = @ + 1, !.pc = "probe", !.probes = @ + 1]

\* the catch block (lines 259-280) followed by attempt++ and the loop head
CatchBlock(r, message) ==
  LET r1 == [r EXCEPT !.lastError = message] IN
    IF Includes(message, NotValidMXC)
      THEN Finish(r1, Thrown(message))
    ELSE IF r.attempt = r.maxRetries - 1
      THEN Finish(r1, Thrown(ExhaustedMessage(r.maxRetries, message)))
    ELSE LoopHead([r1 EXCEPT !.attempt = @ + 1])

\* the try block after agent.request settles (lines 225-258)
AfterRequest(r, resp) ==
  LET r1 == [r EXCEPT !.response = resp] IN
    IF resp.kind = "error" THEN CatchBlock(r1, ConnectFailed)
    ELSE IF IsHttpError(resp.status)
      THEN IF resp.bodyOk
             THEN CatchBlock(r1, HttpErrorMessage(resp.status, resp.body))
             ELSE CatchBlock(r1, BodyFailed)
    ELSE IF resp.bodyOk
      THEN Finish(r1, Result(BufferConcat(resp.chunks), contentTypeOf(resp.ctype)))
      ELSE CatchBlock(r1, BodyFailed)

\* ------------------------------------------------------------- the inputs
MxcValid == MxcPrefix \o <<"d", "/", "i">>
MxcHttp == <<"h", ":", "/", "/", "d", "/", "i">>
MxcNoDomain == MxcPrefix
MxcNoMediaId == MxcPrefix \o <<"d">>
MxcInputs == {MxcValid, MxcHttp, MxcNoDomain, MxcNoMediaId, JsNull}

HomeserverUrls == {UrlAPath, UrlEmpty}
AllowRemoteDefault == {Undefined}
BasicProbeOutcomes == {ProbeFetchError, ProbeBody(ListVersions(<<V1_1, V1_11>>))}
RetryCounts == 0..MaxRetriesBound

\* the smaller inputs of SpecPool
PoolMxcInputs == {MxcValid, MxcHttp}
PoolHomeserverUrls == {UrlAPath, UrlB, UrlFtp, UrlEmpty}
PoolRetryCounts == 0..PoolMaxRetries
PoolProbeOutcomes == {ProbeFetchError}
PoolResponses == {TransportError, HttpSuccess(200, "image/png", <<<<1>>>>, TRUE)}

\* ------------------------------------------------ resolveMatrixSessionKey
\* Keys and ids are sequences: literal parts are one token, the parts the
\* code trims are sequences of characters.  isDirectMessage and
\* sessionScope are "true" / "false" / "room" / "agent" or Undefined.
RECURSIVE trimStart(_)
trimStart(str) ==
  IF str # <<>> /\ Head(str) = " " THEN trimStart(Tail(str)) ELSE str
RECURSIVE trimEnd(_)
trimEnd(str) ==
  IF str # <<>> /\ str[Len(str)] = " " THEN trimEnd(SubSeq(str, 1, Len(str) - 1)) ELSE str
trim(str) == trimEnd(trimStart(str))

\* a value inside a template literal
TemplateText(v) == IF v = JsUndefined THEN <<"undefined">> ELSE v

Route(agentId, sessionKey, mainSessionKey) ==
  [agentId |-> agentId, sessionKey |-> sessionKey, mainSessionKey |-> mainSessionKey]
Params(route, sessionScope, isDirectMessage, threadRootId) ==
  [route |-> route, sessionScope |-> sessionScope, isDirectMessage |-> isDirectMessage,
   threadRootId |-> threadRootId]
SessionResult(sessionKey, parentSessionKey, isThreadSession) ==
  [sessionKey |-> sessionKey, parentSessionKey |-> parentSessionKey,
   isThreadSession |-> isThreadSession]

resolveMatrixSessionKey(params) ==
  LET isDirectMessage == params.isDirectMessage = "true"
      threadRootId == trim(IF params.threadRootId \in {JsNull, JsUndefined}
                             THEN <<>> ELSE params.threadRootId)
      baseSessionKey == IF ~isDirectMessage /\ params.sessionScope = "agent"
                          THEN params.route.mainSessionKey
                          ELSE params.route.sessionKey
  IN  IF threadRootId = <<>> \/ isDirectMessage
        THEN SessionResult(baseSessionKey, JsUndefined, FALSE)
        ELSE SessionResult(TemplateText(baseSessionKey) \o <<":thread:">> \o threadRootId,
                           baseSessionKey, TRUE)

\* the routes and parameters tried
RoomKey == <<"agent:main:matrix:channel:!room:example.org">>
DirectKey == <<"agent:main:matrix:direct:@alice:example.org">>
MainKeyOf(agentChars) == <<"agent:">> \o agentChars \o <<":matrix:main">>
AgentIds == {<<"m", "i">>, <<" ", "M", "i", " ">>, <<" ", " ">>}
MainSessionKeys ==
  {JsUndefined, MainKeyOf(<<"m", "i">>), MainKeyOf(<<"m", "a", "i", "n">>)}
Routes ==
  {Route(a, k, mk) : a \in AgentIds, k \in {RoomKey, DirectKey}, mk \in MainSessionKeys}
ThreadRootIds ==
  {JsUndefined, JsNull, <<>>, <<" ", " ">>, <<"$", "T">>, <<" ", "$", "T", "d", " ">>}

NoSession ==
  [evaluated |-> FALSE,
   params |-> Params(Route(<<>>, <<>>, <<>>), Undefined, Undefined, JsUndefined),
   result |-> SessionResult(<<>>, JsUndefined, FALSE)]

\* ------------------------------------------------ summarizeMatrixRawEvent
\* A JSON value is [type, value], only strings carrying a value; content is
\* [url, file], file being [type, url]: absent, not an object, or an object
\* with its url member; opts is [includeMedia, client].
JsString(value) == [type |-> "string", value |-> value]
JsOther(type) == [type |-> type, value |-> ""]
NoMedia == [defined |-> FALSE, mxcUrl |-> "", downloadUrl |-> Undefined, encrypted |-> FALSE]

\* lines 39-63, the media member of the summary; the client is the one of
\* the tests
summarizeMatrixRawEvent(content, opts) ==
  IF opts.includeMedia # "true" THEN NoMedia
  ELSE
    LET plainMxc == IF content.url.type = "string" THEN content.url ELSE JsOther("undefined")
        encryptedMxc ==
          IF content.file.type = "object" /\ content.file.url.type = "string"
            THEN content.file.url ELSE JsOther("undefined")
        mxcUrl == IF plainMxc.type # "undefined" THEN plainMxc ELSE encryptedMxc
    IN  IF mxcUrl.type = "string" /\ mxcUrl.value # ""
          THEN [defined |-> TRUE, mxcUrl |-> mxcUrl.value,
                downloadUrl |-> IF opts.client THEN "https://download/" \o mxcUrl.value
                                ELSE Undefined,
                encrypted |-> (encryptedMxc.type = "string" /\ encryptedMxc.value # "")]
          ELSE NoMedia

\* the events tried
PlainUrl == "mxc://example.org/audio2"
EncryptedUrl == "mxc://example.org/encrypted-audio"
UrlValues(str) == {JsOther("undefined"), JsOther("number"), JsString(""), JsString(str)}
Contents ==
  {[url |-> url, file |-> file] :
     url \in UrlValues(PlainUrl),
     file \in {[type |-> t, url |-> JsOther("undefined")] : t \in {"undefined", "string"}}
               \cup {[type |-> "object", url |-> fu] : fu \in UrlValues(EncryptedUrl)}}
NoSummary ==
  [evaluated |-> FALSE,
   content |-> [url |-> JsOther("undefined"),
                file |-> [type |-> "undefined", url |-> JsOther("undefined")]],
   opts |-> [includeMedia |-> Undefined, client |-> FALSE], media |-> NoMedia]

\* ------------------------------------------------------ downloadMatrixMedia
\* One call: pc is idle, download (awaiting downloadContent_v2), decrypt
\* (awaiting crypto.decryptMedia), save (awaiting saveMediaBuffer) or done;
\* started: a download or a decryption was begun; saved: the byteLength of
\* every buffer handed to saveMediaBuffer; error: the message thrown.
NoSize == -1             \* sizeBytes is not a number
NoMediaCall ==
  [pc |-> "idle", sizeBytes |-> NoSize, maxBytes |-> 0, file |-> FALSE, crypto |-> FALSE,
   started |-> FALSE, saved |-> <<>>, error |-> <<>>]
SizeLimitMessage == <<"Matrix media exceeds configured size limit">>

\* ---------------------------------------------------------------- actions
Init ==
  /\ sharedAgent = NoPool
  /\ agentRefCount = 0
  /\ pools = <<>>
  /\ d = [p \in Procs |-> IdleCall]
  /\ calls = 0
  /\ nAcq = 0
  /\ nRel = 0
  /\ matched = TRUE
  /\ warned = 0
  /\ unhandled = 0
  /\ sk = NoSession
  /\ sm = NoSummary
  /\ mediaCall = NoMediaCall

\* downloadContent_v2(mxcUrl, homeserverUrl, accessToken, allowRemote,
\* timeoutMs, maxRetries) is called: lines 159-181, up to the await of
\* getMediaEndpointPrefix
Start(p, mxcUrl, homeserverUrl, allowRemote, timeoutMs, maxRetries, limit) ==
  /\ d[p].pc = "idle"
  /\ calls < limit
  /\ calls' = calls + 1
  /\ LET r == [IdleCall EXCEPT !.mxcUrl = mxcUrl, !.homeserverUrl = homeserverUrl,
                               !.allowRemote = allowRemote,
                               !.timeoutMs = timeoutMs, !.maxRetries = maxRetries]
         parsed == parseMXCUrl(mxcUrl)
     IN  d' = [d EXCEPT ![p] = AfterParse(r, parsed)]
  /\ UNCHANGED <<sk, sm, mediaCall, sharedAgent, agentRefCount, pools, nAcq, nRel, matched,
                 warned, unhandled>>

\* getMediaEndpointPrefix settles: lines 181-225, the URL is built, the
\* pool acquired and the loop entered, up to the first await of the loop
ProbeDone(p, probe) ==
  /\ d[p].pc = "probe"
  /\ LET urlOk == UrlOrigin(d[p].homeserverUrl) # InvalidURL
         endpoint == getMediaEndpointPrefix(urlOk, probe)
         r == [d[p] EXCEPT !.probe = IF urlOk THEN probe ELSE ProbeFetchError,
                           !.endpoint = endpoint,
                           !.path = IF urlOk
                                      THEN RequestPath(endpoint, d[p].mxcComponents.domain,
                                                       d[p].mxcComponents.mediaId,
                                                       d[p].allowRemote)
                                      ELSE NoPath]
     IN
       IF ~urlOk
         THEN /\ d' = [d EXCEPT ![p] = Finish(r, Thrown(InvalidUrlMessage))]
              /\ UNCHANGED <<sharedAgent, agentRefCount, pools, nAcq>>
         ELSE LET got == getSharedAgent(CurrentPools, r.homeserverUrl) IN
                /\ sharedAgent' = got.st.sharedAgent
                /\ agentRefCount' = got.st.agentRefCount
                /\ pools' = got.st.pools
                /\ nAcq' = IF got.threw THEN nAcq ELSE nAcq + 1
                /\ d' = [d EXCEPT ![p] =
                            IF got.threw
                              THEN Finish(r, Thrown(InvalidProtocolMessage))
                              ELSE LoopHead([r EXCEPT !.agent = got.agent])]
  /\ UNCHANGED <<sk, sm, mediaCall, calls, nRel, matched, warned, unhandled>>

\* the backoff sleep ends: lines 205-225
SleepDone(p) ==
  /\ d[p].pc = "sleep"
  /\ d' = [d EXCEPT ![p] = IssueRequest(d[p])]
  /\ UNCHANGED <<sk, sm, mediaCall, sharedAgent, agentRefCount, pools, calls, nAcq, nRel, matched,
                 warned, unhandled>>

\* mutant: a call that ends gives its reference back
RequestDone_ReleasesOnExit(p, resp) ==
  /\ d[p].pc = "request"
  /\ d' = [d EXCEPT ![p] = AfterRequest(d[p], resp)]
  /\ LET st == IF AfterRequest(d[p], resp).pc = "done"
                 THEN releaseDownloadAgent(CurrentPools)
                 ELSE CurrentPools
     IN  /\ sharedAgent' = st.sharedAgent
         /\ agentRefCount' = st.agentRefCount
         /\ pools' = st.pools
  /\ UNCHANGED <<sk, sm, mediaCall, calls, nAcq, nRel, matched, warned, unhandled>>

\* agent.request settles and the body is read: lines 225-281
RequestDone(p, resp) ==
  /\ d[p].pc = "request"
  /\ d' = [d EXCEPT ![p] = AfterRequest(d[p], resp)]
  /\ UNCHANGED <<sk, sm, mediaCall, sharedAgent, agentRefCount, pools, calls, nAcq, nRel, matched,
                 warned, unhandled>>

\* the caller has taken the result or the error; its frame is gone
Return(p) ==
  /\ d[p].pc = "done"
  /\ d' = [d EXCEPT ![p] = IdleCall]
  /\ UNCHANGED <<sk, sm, mediaCall, sharedAgent, agentRefCount, pools, calls, nAcq, nRel, matched,
                 warned, unhandled>>

\* releaseDownloadAgent() is called by the embedding code
Release(limit) ==
  /\ nRel < limit
  /\ LET st == releaseDownloadAgent(CurrentPools) IN
       /\ sharedAgent' = st.sharedAgent
       /\ agentRefCount' = st.agentRefCount
       /\ pools' = st.pools
  /\ nRel' = nRel + 1
  /\ matched' = (matched /\ nRel < nAcq)
  /\ UNCHANGED <<sk, sm, mediaCall, d, calls, nAcq, warned, unhandled>>

\* the promise of Pool.close() settles
CloseSettled(i, ok) ==
  /\ i \in 1..Len(pools)
  /\ pools[i].state = "closing"
  /\ pools' = [pools EXCEPT ![i].state = IF ok THEN "closed" ELSE "closeFailed"]
  /\ LET c == closeRejected(warned, unhandled) IN
       /\ warned' = IF ok THEN warned ELSE c.warned
       /\ unhandled' = IF ok THEN unhandled ELSE c.unhandled
  /\ UNCHANGED <<sk, sm, mediaCall, sharedAgent, agentRefCount, d, calls, nAcq, nRel, matched>>

\* Spec: one caller, every response and retry count, few calls
Next ==
  \/ \E p \in Procs, m \in MxcInputs, h \in HomeserverUrls, a \in AllowRemoteDefault,
        n \in RetryCounts :
       Start(p, m, h, a, DefaultTimeoutMs, n, MaxCalls)
  \/ \E p \in Procs, probe \in BasicProbeOutcomes : ProbeDone(p, probe)
  \/ \E p \in Procs : SleepDone(p)
  \/ \E p \in Procs, resp \in Responses : RequestDone(p, resp)
  \/ \E p \in Procs : Return(p)
  \/ Release(MaxReleases)
  \/ \E i \in 1..Len(pools), ok \in BOOLEAN : CloseSettled(i, ok)

Spec == Init /\ [][Next]_vars

\* SpecPool: more calls and releases, few responses and retry counts
NextPool ==
  \/ \E p \in Procs, m \in PoolMxcInputs, h \in PoolHomeserverUrls,
        a \in AllowRemoteDefault, n \in PoolRetryCounts :
       Start(p, m, h, a, DefaultTimeoutMs, n, PoolMaxCalls)
  \/ \E p \in Procs, probe \in PoolProbeOutcomes : ProbeDone(p, probe)
  \/ \E p \in Procs : SleepDone(p)
  \/ \E p \in Procs, resp \in PoolResponses : RequestDone(p, resp)
  \/ \E p \in Procs : Return(p)
  \/ Release(PoolMaxReleases)
  \/ \E i \in 1..Len(pools), ok \in BOOLEAN : CloseSettled(i, ok)

SpecPool == Init /\ [][NextPool]_vars

\* SpecConc: two calls of downloadContent_v2 in flight at once, interleaved
\* at their awaits (Promise.all in runTests); releaseDownloadAgent runs when
\* no download is in flight, as runTests calls it after Promise.all
ConcProcs == {1, 2}

InFlight(p) == d[p].pc \in {"probe", "request", "sleep"}

InitConc ==
  /\ sharedAgent = NoPool
  /\ agentRefCount = 0
  /\ pools = <<>>
  /\ d = [p \in ConcProcs |-> IdleCall]
  /\ calls = 0
  /\ nAcq = 0
  /\ nRel = 0
  /\ matched = TRUE
  /\ warned = 0
  /\ unhandled = 0
  /\ sk = NoSession
  /\ sm = NoSummary
  /\ mediaCall = NoMediaCall

ReleaseAfterAll(limit) ==
  /\ \A p \in ConcProcs : ~InFlight(p)
  /\ Release(limit)

NextConc ==
  \/ \E p \in ConcProcs, m \in PoolMxcInputs, h \in {UrlAPath, UrlB},
        a \in AllowRemoteDefault, n \in 1..ConcMaxRetries :
       Start(p, m, h, a, DefaultTimeoutMs, n, ConcMaxCalls)
  \/ \E p \in ConcProcs, probe \in PoolProbeOutcomes : ProbeDone(p, probe)
  \/ \E p \in ConcProcs : SleepDone(p)
  \/ \E p \in ConcProcs, resp \in PoolResponses : RequestDone(p, resp)
  \/ \E p \in ConcProcs : Return(p)
  \/ ReleaseAfterAll(ConcMaxReleases)
  \/ \E i \in 1..Len(pools), ok \in BOOLEAN : CloseSettled(i, ok)

SpecConc == InitConc /\ [][NextConc]_vars

\* SpecRelease: two callers; releaseDownloadAgent runs once for a call that
\* has ended, whatever its outcome (the afterEach of download.test.ts),
\* also while the other call is in flight
ReleaseForCompleted(limit) ==
  /\ nRel < calls - Cardinality({p \in ConcProcs : InFlight(p)})
  /\ Release(limit)

NextRelease ==
  \/ \E p \in ConcProcs, m \in PoolMxcInputs, h \in {UrlAPath, UrlB},
        a \in AllowRemoteDefault, n \in 1..ConcMaxRetries :
       Start(p, m, h, a, DefaultTimeoutMs, n, ConcMaxCalls)
  \/ \E p \in ConcProcs, probe \in PoolProbeOutcomes : ProbeDone(p, probe)
  \/ \E p \in ConcProcs : SleepDone(p)
  \/ \E p \in ConcProcs, resp \in PoolResponses : RequestDone(p, resp)
  \/ \E p \in ConcProcs : Return(p)
  \/ ReleaseForCompleted(ConcMaxReleases)
  \/ \E i \in 1..Len(pools), ok \in BOOLEAN : CloseSettled(i, ok)

SpecRelease == InitConc /\ [][NextRelease]_vars

\* SpecProbe: one caller, every answer of the versions endpoint
ReqRetryCounts == 0..ReqMaxRetries
NextProbe ==
  \/ \E p \in Procs, h \in HomeserverUrls, a \in AllowRemoteDefault, n \in ReqRetryCounts :
       Start(p, MxcValid, h, a, DefaultTimeoutMs, n, ReqMaxCalls)
  \/ \E p \in Procs, probe \in ProbeOutcomes : ProbeDone(p, probe)
  \/ \E p \in Procs : SleepDone(p)
  \/ \E p \in Procs, resp \in PoolResponses : RequestDone(p, resp)
  \/ \E p \in Procs : Return(p)
  \/ Release(ReqMaxReleases)
  \/ \E i \in 1..Len(pools), ok \in BOOLEAN : CloseSettled(i, ok)

SpecProbe == Init /\ [][NextProbe]_vars

\* SpecRequest: one caller, every kind of allowRemote argument, identifiers
\* whose parts need escaping or are dot segments
ReqMxcInputs ==
  { MxcValid, MxcHttp,
    <<"M", "X", "C", ":", "/", "/", "d", ":", "8", "/", "a", "/", "b", " ", "c">>,
    MxcPrefix \o <<".", ".", "/", "i">>,
    MxcPrefix \o <<"d", "/", ".">> }
AllowRemoteInputs == {"true", "false", Undefined, OptionsObject}
NextRequest ==
  \/ \E p \in Procs, m \in ReqMxcInputs, h \in HomeserverUrls, a \in AllowRemoteInputs,
        t \in {1, DefaultTimeoutMs}, n \in ReqRetryCounts :
       Start(p, m, h, a, t, n, ReqMaxCalls)
  \/ \E p \in Procs, probe \in BasicProbeOutcomes : ProbeDone(p, probe)
  \/ \E p \in Procs : SleepDone(p)
  \/ \E p \in Procs, resp \in PoolResponses : RequestDone(p, resp)
  \/ \E p \in Procs : Return(p)
  \/ Release(ReqMaxReleases)
  \/ \E i \in 1..Len(pools), ok \in BOOLEAN : CloseSettled(i, ok)

SpecRequest == Init /\ [][NextRequest]_vars

\* SpecFair: one caller and one identifier, where every await of
\* downloadContent_v2 settles: the version probe (line 181), the backoff
\* sleep (line 205), the request and the reading of its body (lines 225-244)
NextFair ==
  \/ \E p \in Procs, h \in HomeserverUrls, n \in ReqRetryCounts :
       Start(p, MxcValid, h, Undefined, DefaultTimeoutMs, n, ReqMaxCalls)
  \/ \E p \in Procs, probe \in PoolProbeOutcomes : ProbeDone(p, probe)
  \/ \E p \in Procs : SleepDone(p)
  \/ \E p \in Procs, resp \in Responses : RequestDone(p, resp)
  \/ \E p \in Procs : Return(p)
  \/ Release(ReqMaxReleases)
  \/ \E i \in 1..Len(pools), ok \in BOOLEAN : CloseSettled(i, ok)

SpecFair ==
  /\ Init /\ [][NextFair]_vars
  /\ WF_vars(\E p \in Procs, probe \in PoolProbeOutcomes : ProbeDone(p, probe))
  /\ WF_vars(\E p \in Procs : SleepDone(p))
  /\ WF_vars(\E p \in Procs, resp \in Responses : RequestDone(p, resp))

\* SpecMedia: one call of downloadMatrixMedia, its download made by
\* downloadContent_v2
\* lines 84-102 and 20-30, 55-60: up to the first await
MediaStart(mxcUrl, homeserverUrl, sizeBytes, maxBytes, file, crypto) ==
  /\ mediaCall.pc = "idle"
  /\ d[1].pc = "idle"
  /\ LET c == [NoMediaCall EXCEPT !.sizeBytes = sizeBytes, !.maxBytes = maxBytes,
                                  !.file = file, !.crypto = crypto]
     IN
       IF sizeBytes # NoSize /\ sizeBytes > maxBytes
         THEN /\ mediaCall' = [c EXCEPT !.pc = "done", !.error = SizeLimitMessage]
              /\ UNCHANGED <<d, calls>>
       ELSE IF file
         THEN /\ mediaCall' =
                   IF ~crypto
                     THEN [c EXCEPT !.pc = "done",
                                    !.error = <<"Cannot decrypt media: crypto not enabled">>]
                     ELSE [c EXCEPT !.pc = "decrypt", !.started = TRUE]
              /\ UNCHANGED <<d, calls>>
       ELSE /\ mediaCall' = [c EXCEPT !.pc = "download", !.started = TRUE]
            /\ calls' = calls + 1
            /\ d' = [d EXCEPT ![1] =
                        AfterParse([IdleCall EXCEPT !.mxcUrl = mxcUrl,
                                      !.homeserverUrl = homeserverUrl,
                                      !.allowRemote = OptionsObject,
                                      !.timeoutMs = DefaultTimeoutMs,
                                      !.maxRetries = DefaultMaxRetries],
                                   parseMXCUrl(mxcUrl))]
  /\ UNCHANGED <<sk, sm, sharedAgent, agentRefCount, pools, nAcq, nRel, matched,
                 warned, unhandled>>

\* mutant: the downloaded buffer is passed on whatever its size
MediaFetched_NoSizeCheck ==
  /\ mediaCall.pc = "download"
  /\ d[1].pc = "done"
  /\ d' = [d EXCEPT ![1] = IdleCall]
  /\ mediaCall' =
       IF d[1].outcome.kind = "error"
         THEN [mediaCall EXCEPT !.pc = "done",
                 !.error = <<"Matrix media download failed:", "Error:">>
                             \o d[1].outcome.message]
       ELSE [mediaCall EXCEPT !.pc = "save", !.saved = Append(@, Len(d[1].outcome.data))]
  /\ UNCHANGED <<sk, sm, sharedAgent, agentRefCount, pools, calls, nAcq, nRel, matched,
                 warned, unhandled>>

\* downloadContent_v2 has settled: lines 30-43 and 104-113
MediaFetched ==
  /\ mediaCall.pc = "download"
  /\ d[1].pc = "done"
  /\ d' = [d EXCEPT ![1] = IdleCall]
  /\ mediaCall' =
       IF d[1].outcome.kind = "error"
         THEN [mediaCall EXCEPT !.pc = "done",
                 !.error = <<"Matrix media download failed:", "Error:">>
                             \o d[1].outcome.message]
       ELSE IF Len(d[1].outcome.data) > mediaCall.maxBytes
         THEN [mediaCall EXCEPT !.pc = "done",
                 !.error = <<"Matrix media download failed:", "Error:">>
                             \o SizeLimitMessage]
       ELSE [mediaCall EXCEPT !.pc = "save", !.saved = Append(@, Len(d[1].outcome.data))]
  /\ UNCHANGED <<sk, sm, sharedAgent, agentRefCount, pools, calls, nAcq, nRel, matched,
                 warned, unhandled>>

\* crypto.decryptMedia has settled, with a buffer of byteLength bytes or
\* (ok = FALSE) a rejection: lines 60-68 and 104-113
DecryptDone(ok, byteLength) ==
  /\ mediaCall.pc = "decrypt"
  /\ mediaCall' =
       IF ~ok THEN [mediaCall EXCEPT !.pc = "done", !.error = <<"decryptMedia rejected">>]
       ELSE IF byteLength > mediaCall.maxBytes
         THEN [mediaCall EXCEPT !.pc = "done", !.error = SizeLimitMessage]
       ELSE [mediaCall EXCEPT !.pc = "save", !.saved = Append(@, byteLength)]
  /\ UNCHANGED <<sk, sm, d, sharedAgent, agentRefCount, pools, calls, nAcq, nRel, matched,
                 warned, unhandled>>

\* saveMediaBuffer has settled: lines 108-118
SaveDone(ok) ==
  /\ mediaCall.pc = "save"
  /\ mediaCall' = [mediaCall EXCEPT !.pc = "done",
                     !.error = IF ok THEN <<>> ELSE <<"saveMediaBuffer rejected">>]
  /\ UNCHANGED <<sk, sm, d, sharedAgent, agentRefCount, pools, calls, nAcq, nRel, matched,
                 warned, unhandled>>

NextMedia ==
  \/ \E m \in PoolMxcInputs, h \in HomeserverUrls,
        sizeBytes \in {NoSize} \cup 0..(MaxBytesBound + 1), maxBytes \in 0..MaxBytesBound,
        file \in BOOLEAN, crypto \in BOOLEAN :
       MediaStart(m, h, sizeBytes, maxBytes, file, crypto)
  \/ \E probe \in BasicProbeOutcomes : ProbeDone(1, probe)
  \/ SleepDone(1)
  \/ \E resp \in {TransportError}
                   \cup {HttpSuccess(200, "image/png", c, TRUE) : c \in ChunkLists} :
       RequestDone(1, resp)
  \/ MediaFetched
  \/ \E ok \in BOOLEAN, byteLength \in 0..(MaxBytesBound + 1) : DecryptDone(ok, byteLength)
  \/ \E ok \in BOOLEAN : SaveDone(ok)

SpecMedia == Init /\ [][NextMedia]_vars

\* SpecParse: one caller, every short identifier after every scheme
Schemes ==
  { MxcPrefix,
    <<"M", "X", "C", ":", "/", "/">>,
    <<"m", "X", "c", ":", "/", "/">>,
    <<"m", "x", "c", ":", "/">>,
    <<"x", "m", "x", "c", ":", "/", "/">>,
    <<"h", ":", "/", "/">>,
    <<>> }
ParseInputs ==
  {JsNull, JsUndefined} \cup {sch \o t : sch \in Schemes, t \in SeqsUpTo({"d", "D", "/"}, MaxTail)}
NextParse ==
  \/ \E p \in Procs, m \in ParseInputs, a \in AllowRemoteDefault :
       Start(p, m, UrlAPath, a, DefaultTimeoutMs, ReqMaxRetries, ReqMaxCalls)
  \/ \E p \in Procs, probe \in PoolProbeOutcomes : ProbeDone(p, probe)
  \/ \E p \in Procs : SleepDone(p)
  \/ \E p \in Procs, resp \in PoolResponses : RequestDone(p, resp)
  \/ \E p \in Procs : Return(p)
  \/ Release(ReqMaxReleases)
  \/ \E i \in 1..Len(pools), ok \in BOOLEAN : CloseSettled(i, ok)

SpecParse == Init /\ [][NextParse]_vars

\* SpecSession: resolveMatrixSessionKey applied to every route and parameter
Resolve(params) ==
  /\ sk' = [evaluated |-> TRUE, params |-> params,
            result |-> resolveMatrixSessionKey(params)]
  /\ UNCHANGED <<sharedAgent, agentRefCount, pools, d, calls, nAcq, nRel, matched,
                 warned, unhandled, sm, mediaCall>>

NextSession ==
  \E route \in Routes, scope \in {"room", "agent", Undefined},
     dm \in {"true", "false", Undefined}, t \in ThreadRootIds :
    Resolve(Params(route, scope, dm, t))

SpecSession == Init /\ [][NextSession]_vars

\* SpecSummary: summarizeMatrixRawEvent applied to every content and option
Summarize(content, opts) ==
  /\ sm' = [evaluated |-> TRUE, content |-> content, opts |-> opts,
            media |-> summarizeMatrixRawEvent(content, opts)]
  /\ UNCHANGED <<sharedAgent, agentRefCount, pools, d, calls, nAcq, nRel, matched,
                 warned, unhandled, sk, mediaCall>>

NextSummary ==
  \E content \in Contents, includeMedia \in {"true", "false", Undefined}, client \in BOOLEAN :
    Summarize(content, [includeMedia |-> includeMedia, client |-> client])

SpecSummary == Init /\ [][NextSummary]_vars

TypeOK ==
  /\ sharedAgent \in 0..Len(pools)
  /\ agentRefCount \in Int
  /\ \A p \in DOMAIN d : d[p].pc \in {"idle", "probe", "request", "sleep", "done"}

\* ----------------------------------------------------------------- claims
Is2xx(status) == status \in 200..299
ParsedOk(p) == parseMXCUrl(d[p].mxcUrl).ok

\* C1: when every attempt of a call fails (transport error or non-2xx
\* status), exactly maxRetries requests are issued and the call fails with
\* the exhausted-retries error carrying the last error and the attempt
\* count; never more than maxRetries requests are issued.
C1_ExhaustsRetries ==
  \A p \in DOMAIN d :
    /\ d[p].nReq <= d[p].maxRetries
    /\ (d[p].pc = "done" /\ d[p].nReq >= 1 /\ d[p].outcome.kind = "error")
         => /\ d[p].nReq = d[p].maxRetries
            /\ d[p].outcome.message =
                 <<"Failed to download after", ToString(d[p].maxRetries), "attempts:">>
                   \o d[p].lastError

\* C2: after N acquisitions and N releases, each release preceded by its
\* acquisition, there is no open pool: the singleton is absent, every pool
\* created has been closed, and the reference count is 0.
C2_BalancedLeavesNoPool ==
  (matched /\ nAcq = nRel)
    => /\ sharedAgent = NoPool
       /\ agentRefCount = 0
       /\ \A i \in 1..Len(pools) : pools[i].state # "open"

C2_Witness ==
  matched /\ nAcq = 2 /\ nRel = 2 /\ Len(pools) = 1

\* C3: the reference count is never negative, whatever the sequence of
\* acquire and release calls (a release at 0 is a no-op).
C3_RefCountNonNegative == agentRefCount >= 0

\* C4: a call whose identifier fails to parse ends at once with the parse
\* error: no version probe, no acquisition (pool and reference count
\* unchanged), no request and no sleep, for every maxRetries.
C4_ParseFailureIsImmediate ==
  [][\A p \in DOMAIN d :
       /\ (d'[p].pc \in {"probe", "request", "sleep"})
            => parseMXCUrl(d'[p].mxcUrl).ok
       /\ (d[p].pc = "idle" /\ d'[p].pc # "idle" /\ ~parseMXCUrl(d'[p].mxcUrl).ok)
            => /\ d'[p].pc = "done"
               /\ d'[p].outcome.kind = "error"
               /\ d'[p].outcome.message \in
                    {<<NotValidMXC>>, <<MissingDomain>>, <<MissingMediaId>>}
               /\ d'[p].probes = 0
               /\ d'[p].agent = NoPool
               /\ d'[p].nReq = 0
               /\ d'[p].sleeps = <<>>
               /\ UNCHANGED <<sharedAgent, agentRefCount, pools, nAcq>>]_vars

C4_Witness ==
  \E p \in DOMAIN d :
    /\ d[p].pc = "done" /\ ~ParsedOk(p) /\ d[p].maxRetries >= 2
    /\ sharedAgent # NoPool /\ agentRefCount = 1

\* C5: a response with a status outside 200..299 on an attempt that is not
\* the last one never ends the loop: the next attempt follows, for every
\* status and every body.
C5_HttpErrorIsRetried ==
  [][\A p \in DOMAIN d :
       (/\ d[p].pc = "request" /\ d'[p].pc # "request"
        /\ d'[p].response.kind = "response"
        /\ ~Is2xx(d'[p].response.status)
        /\ d[p].attempt < d[p].maxRetries - 1)
         => (d'[p].pc = "sleep" /\ d'[p].attempt = d[p].attempt + 1)]_vars

\* C6 as stated: a result comes only from a 2xx attempt, the first 2xx
\* attempt ends the loop, the payload is the concatenation of the chunks
\* and contentType is the header, or the default when the header is absent.
C6_FirstSuccessReturns ==
  \A p \in DOMAIN d :
    LET resp == d[p].response IN
      /\ d[p].outcome.kind = "result"
           => /\ resp.kind = "response" /\ Is2xx(resp.status)
              /\ d[p].outcome.data = BufferConcat(resp.chunks)
              /\ d[p].outcome.contentType =
                   (IF resp.ctype = Undefined THEN DefaultContentType ELSE resp.ctype)
      /\ (resp.kind = "response" /\ Is2xx(resp.status))
           => (d[p].pc = "done" /\ d[p].outcome.kind = "result")

\* C6 amended: a result comes only from a 2xx attempt; the first 2xx
\* attempt whose body is read without error ends the loop (a 2xx attempt
\* whose body stream fails is retried like any other error); the payload is
\* the concatenation of the chunks and contentType is the header when it is
\* a non-empty string, the default when it is absent or empty.
C6_Amended ==
  \A p \in DOMAIN d :
    LET resp == d[p].response IN
      /\ d[p].outcome.kind = "result"
           => /\ resp.kind = "response" /\ Is2xx(resp.status) /\ resp.bodyOk
              /\ d[p].outcome.data = BufferConcat(resp.chunks)
              /\ d[p].outcome.contentType =
                   (IF resp.ctype \in {Undefined, ""} THEN DefaultContentType
                    ELSE resp.ctype)
      /\ (resp.kind = "response" /\ Is2xx(resp.status) /\ resp.bodyOk)
           => (d[p].pc = "done" /\ d[p].outcome.kind = "result")
      /\ (resp.kind = "response" /\ Is2xx(resp.status) /\ ~resp.bodyOk)
           => /\ d[p].outcome.kind # "result"
              /\ d[p].lastError = BodyFailed
              /\ d[p].pc \in {"sleep", "request", "done"}
              /\ d[p].pc = "done" => d[p].attempt = d[p].maxRetries - 1

C6_Witness ==
  \E p \in DOMAIN d :
    /\ d[p].outcome.kind = "result"
    /\ d[p].attempt >= 1
    /\ d[p].lastError = BodyFailed
    /\ d[p].response.ctype = ""
    /\ d[p].outcome.data = <<1, 2, 3>>

\* C7: no sleep precedes attempt 0; before attempt k > 0 the loop sleeps
\* exactly min(1000 * 2^(k-1), 8000) ms; the delays never decrease and
\* never exceed 8000 ms.
C7_BackoffSchedule ==
  \A p \in DOMAIN d :
    LET s == d[p].sleeps IN
      /\ d[p].pc \in {"request", "sleep"} => Len(s) = d[p].attempt
      /\ d[p].pc = "done" => Len(s) <= d[p].attempt
      /\ d[p].nReq = 0 => s = <<>>
      /\ d[p].nReq <= Len(s) + 1
      /\ \A k \in 1..Len(s) :
           /\ s[k] = (IF 1000 * 2^(k - 1) < 8000 THEN 1000 * 2^(k - 1) ELSE 8000)
           /\ s[k] <= 8000
           /\ k > 1 => s[k - 1] <= s[k]

C7_Witness ==
  \E p \in DOMAIN d :
    /\ d[p].pc = "request" /\ d[p].attempt = 5
    /\ d[p].sleeps = <<1000, 2000, 4000, 8000, 8000>>

\* C8: while a pool exists, getSharedAgent returns that same pool and adds
\* exactly 1 to the reference count, whatever URL is passed; no second
\* pool is created and the existing one is not rebound.
C8_ExistingPoolIsReused ==
  [][\A p \in DOMAIN d :
       (d[p].pc = "probe" /\ d'[p].agent # NoPool /\ sharedAgent # NoPool)
         => /\ d'[p].agent = sharedAgent
            /\ sharedAgent' = sharedAgent
            /\ agentRefCount' = agentRefCount + 1
            /\ pools' = pools]_vars

C8_Witness ==
  \E p \in DOMAIN d :
    /\ d[p].agent # NoPool
    /\ agentRefCount >= 2
    /\ pools[d[p].agent].origin # UrlOrigin(d[p].homeserverUrl)

\* C9: a release at reference count n >= 2 only lowers it to n-1 and
\* leaves the pool open; at 1 it starts closing the pool, clears the
\* singleton and sets the count to 0; a failed close is logged and reaches
\* neither the caller of release nor a later acquire.
C9_ReleaseClosesAtZero ==
  [][/\ (nRel' = nRel + 1 /\ agentRefCount >= 2)
          => /\ agentRefCount' = agentRefCount - 1
             /\ sharedAgent' = sharedAgent /\ sharedAgent # NoPool
             /\ pools' = pools /\ pools[sharedAgent].state = "open"
     /\ (nRel' = nRel + 1 /\ agentRefCount = 1)
          => /\ sharedAgent # NoPool
             /\ pools[sharedAgent].state = "open"
             /\ pools' = [pools EXCEPT ![sharedAgent].state = "closing"]
             /\ sharedAgent' = NoPool
             /\ agentRefCount' = 0
     /\ nRel' = nRel + 1 => d' = d
     /\ unhandled' = 0
     /\ \A i \in 1..Len(pools) :
          (pools[i].state = "closing" /\ pools'[i].state = "closeFailed")
            => (warned' = warned + 1 /\ d' = d /\ sharedAgent' = sharedAgent
                /\ agentRefCount' = agentRefCount)
     /\ \A p \in DOMAIN d :
          (d[p].pc = "probe" /\ d[p].homeserverUrl \in {UrlA, UrlAPath, UrlB})
            => (d'[p] = d[p] \/
                (d'[p].agent # NoPool /\ pools'[d'[p].agent].state = "open"
                 /\ d'[p].outcome.message
                      \notin {InvalidUrlMessage, InvalidProtocolMessage}))]_vars

C9_Witness ==
  /\ \E i \in 1..Len(pools) : pools[i].state = "closeFailed"
  /\ warned >= 1
  /\ nRel >= 2
  /\ sharedAgent # NoPool
  /\ \E p \in DOMAIN d : d[p].agent = sharedAgent /\ d[p].pc = "request"

\* C10 as stated: every call that gets past parsing acquires exactly once
\* and never releases; the acquisition makes the reference count exactly
\* one higher; after k such calls and no release the count is k.
AcquireStep(p) == d[p].pc = "probe" /\ d'[p].agent # NoPool

C10_OneAcquirePerCall ==
  [][/\ \A p \in DOMAIN d :
          /\ (d'[p].pc \in {"request", "sleep", "done"} /\ parseMXCUrl(d'[p].mxcUrl).ok)
               => d'[p].agent # NoPool
          /\ AcquireStep(p) => agentRefCount' = agentRefCount + 1
          /\ (d'[p] # d[p] /\ ~AcquireStep(p))
               => UNCHANGED <<sharedAgent, agentRefCount, pools>>
     /\ d' # d => nRel' = nRel
     /\ nRel' = 0 => agentRefCount' = nAcq']_vars

\* C10 amended: no call ever releases the pool; every call that gets past
\* parsing and in which neither the construction of the request URL nor
\* the construction of the pool throws acquires exactly once; a call whose
\* homeserverUrl is not a valid URL, or names a protocol the pool rejects
\* while no pool exists, fails before the loop with no acquisition; the
\* acquisition adds 1 to the reference count when a pool exists and sets
\* it to 1 when none exists; after k acquiring calls and no release the
\* count is k.
SetupThrew(r) ==
  /\ r.pc = "done" /\ r.agent = NoPool /\ r.nReq = 0
  /\ r.outcome.kind = "error"
  /\ r.outcome.message \in {InvalidUrlMessage, InvalidProtocolMessage}

C10_Amended ==
  [][/\ \A p \in DOMAIN d :
          /\ (d'[p].pc \in {"request", "sleep", "done"} /\ parseMXCUrl(d'[p].mxcUrl).ok)
               => /\ d'[p].homeserverUrl \in {UrlA, UrlAPath, UrlB} => d'[p].agent # NoPool
                  /\ d'[p].homeserverUrl = UrlEmpty => SetupThrew(d'[p])
                  /\ d'[p].agent = NoPool <=> SetupThrew(d'[p])
                  /\ (d[p].pc = "probe" /\ sharedAgent # NoPool
                        /\ d'[p].homeserverUrl # UrlEmpty) => d'[p].agent # NoPool
          /\ AcquireStep(p)
               => /\ agentRefCount' =
                       (IF sharedAgent # NoPool THEN agentRefCount + 1 ELSE 1)
                  /\ nAcq' = nAcq + 1
          /\ (d'[p] # d[p] /\ ~AcquireStep(p))
               => UNCHANGED <<sharedAgent, agentRefCount, pools, nAcq>>
     /\ d' # d => nRel' = nRel
     /\ nRel' = 0 => agentRefCount' = nAcq']_vars

C10_Witness ==
  /\ nRel = 0
  /\ agentRefCount = 2
  /\ \E p \in DOMAIN d :
       /\ d[p].pc = "done" /\ ParsedOk(p)
       /\ UrlOrigin(d[p].homeserverUrl) = InvalidURL

\* C11: whatever the interleaving of concurrent downloadContent_v2 calls at
\* their awaits (probe, request, backoff sleep), the downloads in flight at
\* the same time hold one and the same pool instance, and it is the current
\* singleton: two downloads in flight never hold different pools.
C11_InFlightShareOnePool ==
  \A p \in DOMAIN d, q \in DOMAIN d :
    (InFlight(p) /\ InFlight(q) /\ d[p].agent # NoPool /\ d[q].agent # NoPool)
      => /\ d[p].agent = d[q].agent
         /\ d[p].agent = sharedAgent

\* two downloads for different homeservers, both with a request in flight
C11_Witness ==
  /\ DOMAIN d = ConcProcs
  /\ d[1].pc = "request" /\ d[2].pc = "request"
  /\ d[1].homeserverUrl # d[2].homeserverUrl
  /\ d[1].agent # NoPool /\ d[1].agent = d[2].agent

\* C12: the pair (sharedAgent, agentRefCount) is changed only by the
\* acquisition step of a download and by releaseDownloadAgent; parsing, the
\* probe, the attempts, draining a body, the backoff sleeps and the error
\* handling of downloadContent_v2 leave both unchanged.
C12_PoolFrame ==
  [][/\ <<sharedAgent, agentRefCount>>' # <<sharedAgent, agentRefCount>>
          => \/ \E p \in DOMAIN d : AcquireStep(p)
             \/ nRel' = nRel + 1
     /\ \A p \in DOMAIN d :
          (d[p].pc \in {"idle", "sleep", "request", "done"} /\ d'[p] # d[p])
            => UNCHANGED <<sharedAgent, agentRefCount>>]_vars

\* a download that failed after retries, slept and drained bodies, and the
\* pool it acquired is still the singleton with its one reference
C12_Witness ==
  /\ d[1].pc = "done"
  /\ d[1].outcome.kind = "error"
  /\ Len(d[1].sleeps) >= 2
  /\ d[1].agent # NoPool
  /\ sharedAgent = d[1].agent
  /\ agentRefCount = 1

\* the probe of call p has settled
Probed(p) == d[p].probe.kind # "none"
HasNonString(items) == \E k \in 1..Len(items) : items[k] = NotAString
\* the probe failed: network error, non-success status, body that is not
\* JSON, body without a versions list, versions that is not a list of strings
ProbeFailed(probe) ==
  \/ probe.kind \in {"fetchError", "notOk", "jsonError"}
  \/ probe.kind = "body" /\ probe.versions.type \in {"absent", "other"}
  \/ probe.kind = "body" /\ probe.versions.type = "list" /\ HasNonString(probe.versions.items)
\* the call went on to the pool and the loop after its probe
WentOn(r) ==
  /\ r.pc \in {"request", "sleep", "done"}
  /\ r.agent # NoPool
  /\ r.maxRetries >= 1 => r.nReq >= 1
  /\ r.outcome.kind = "error" => r.response # NoResponse \/ r.maxRetries = 0

IsDecimal(str) == str # <<>> /\ \A k \in 1..Len(str) : str[k] \in Digits09
DigitValue(c) ==
  CASE c = "0" -> 0 [] c = "1" -> 1 [] c = "2" -> 2 [] c = "3" -> 3 [] c = "4" -> 4
    [] c = "5" -> 5 [] c = "6" -> 6 [] c = "7" -> 7 [] c = "8" -> 8 [] c = "9" -> 9
RECURSIVE DecimalValue(_)
DecimalValue(str) ==
  IF str = <<>> THEN 0
  ELSE 10 * DecimalValue(SubSeq(str, 1, Len(str) - 1)) + DigitValue(str[Len(str)])
\* v denotes major version 1 with a minor version of at least 11
DenotesV1Minor11(v) ==
  /\ v # NotAString
  /\ Len(v) > 3
  /\ SubSeq(v, 1, 3) = <<"v", "1", ".">>
  /\ IsDecimal(SubSeq(v, 4, Len(v)))
  /\ DecimalValue(SubSeq(v, 4, Len(v))) >= 11

\* C14 as stated: the modern prefix is chosen exactly when the advertised
\* versions hold an entry denoting major version 1 with minor version at
\* least 11, whatever that minor number is; otherwise, also for an empty
\* list and a failed probe, the legacy prefix is chosen; the request path
\* begins with the chosen prefix.
C14_ModernIffV1Minor11 ==
  \A p \in DOMAIN d :
    Probed(p)
      => LET probe == d[p].probe
             items == probe.versions.items
             advertised == /\ probe.kind = "body"
                           /\ probe.versions.type = "list"
                           /\ ~HasNonString(items)
                           /\ \E k \in 1..Len(items) : DenotesV1Minor11(items[k])
         IN  /\ ~HasNonString(items)
                  => d[p].endpoint = (IF advertised THEN ModernPrefix ELSE LegacyPrefix)
             /\ d[p].path # NoPath
                  => SubSeq(d[p].path.pathname, 1, Len(EndpointSegments(d[p].endpoint)))
                       = EndpointSegments(d[p].endpoint)

\* the call of p has been made and its parse step taken
Called(p) == d[p].pc # "idle"
\* str begins with "mxc://", letters in either case
HasMxcScheme(str) ==
  /\ str \notin {JsNull, JsUndefined}
  /\ Len(str) >= 6
  /\ str[1] \in {"m", "M"} /\ str[2] \in {"x", "X"} /\ str[3] \in {"c", "C"}
  /\ str[4] = ":" /\ str[5] = "/" /\ str[6] = "/"
\* what follows the scheme
AfterScheme(str) == IF Len(str) > 6 THEN SubSeq(str, 7, Len(str)) ELSE <<>>
\* the call of p failed in parsing with this message, before any probe
ParseFailedWith(p, msg) ==
  /\ d[p].pc = "done"
  /\ d[p].outcome = Thrown(<<msg>>)
  /\ d[p].probes = 0 /\ d[p].nReq = 0

\* C15: every input that does not begin with "mxc://" (compared without
\* regard to case), the empty string, null and undefined included, fails with
\* "Not a valid MXC URI"; an input that differs from an accepted identifier
\* only in the letter case of the scheme is accepted with the same parts.
C15_SchemeIsCaseInsensitive ==
  \A p \in DOMAIN d :
    Called(p)
      => LET str == d[p].mxcUrl IN
           /\ ~HasMxcScheme(str) => ParseFailedWith(p, NotValidMXC)
           /\ HasMxcScheme(str)
                => /\ d[p].outcome # Thrown(<<NotValidMXC>>)
                   /\ parseMXCUrl(MxcPrefix \o AfterScheme(str)).ok
                        => /\ d[p].mxcComponents = parseMXCUrl(MxcPrefix \o AfterScheme(str))
                           /\ d[p].probes = 1

\* an identifier with an upper-case scheme went on to the probe
C15_Witness ==
  /\ d[1].pc = "probe"
  /\ d[1].mxcUrl = <<"M", "X", "C", ":", "/", "/", "D", "/", "d">>
  /\ d[1].mxcComponents = ParseOk(<<"D">>, <<"d">>)

\* C16: an input whose authority (the text between the scheme and the
\* first "/") is empty fails with "Missing domain component in MXC URI",
\* also when a resource id follows ("mxc:///id") and when none does: the
\* authority is checked before the resource id.
C16_EmptyAuthority ==
  \A p \in DOMAIN d :
    (Called(p) /\ HasMxcScheme(d[p].mxcUrl)
       /\ (AfterScheme(d[p].mxcUrl) = <<>> \/ Head(AfterScheme(d[p].mxcUrl)) = "/"))
      => ParseFailedWith(p, MissingDomain)

\* "mxc:///d" has been rejected
C16_Witness ==
  /\ d[1].mxcUrl = MxcPrefix \o <<"/", "d">>
  /\ ParseFailedWith(1, MissingDomain)

\* C17: an input with an authority and no resource id ("mxc://domain",
\* "mxc://domain/") fails with "Missing mediaId component in MXC URI".
C17_EmptyResourceId ==
  \A p \in DOMAIN d :
    (Called(p) /\ HasMxcScheme(d[p].mxcUrl))
      => LET rest == AfterScheme(d[p].mxcUrl)
             k == FirstIndexOf(rest, "/")
         IN  (rest # <<>> /\ Head(rest) # "/" /\ (k = 0 \/ k = Len(rest)))
               => ParseFailedWith(p, MissingMediaId)

\* "mxc://dD/" has been rejected
C17_Witness ==
  /\ d[1].mxcUrl = MxcPrefix \o <<"d", "D", "/">>
  /\ ParseFailedWith(1, MissingMediaId)

\* C18: when parsing succeeds the authority is the non-empty text between
\* the scheme and the first "/", the resource id is the non-empty rest, kept
\* verbatim with its further "/", and scheme + authority + "/" + resource id
\* is the input up to the case of the scheme.
C18_PartsReproduceInput ==
  \A p \in DOMAIN d :
    (Called(p) /\ d[p].mxcComponents.ok)
      => LET c == d[p].mxcComponents IN
           /\ HasMxcScheme(d[p].mxcUrl)
           /\ c.domain # <<>>
           /\ \A k \in 1..Len(c.domain) : c.domain[k] # "/"
           /\ c.mediaId # <<>>
           /\ c.domain \o <<"/">> \o c.mediaId = AfterScheme(d[p].mxcUrl)

\* an identifier whose resource id holds a "/" has been taken apart
C18_Witness ==
  /\ d[1].pc = "request"
  /\ d[1].mxcUrl = MxcPrefix \o <<"d", "/", "/">>
  /\ d[1].mxcComponents = ParseOk(<<"d">>, <<"/">>)

\* C19 as stated: the request carries allow_remote=false exactly when the
\* caller's allowRemote is false; when it is true or omitted the request
\* target has no query string and is
\* {prefix}/download/{url-encoded authority}/{url-encoded resource id}.
C19_AllowRemoteOnlyWhenFalse ==
  \A p \in DOMAIN d :
    d[p].path # NoPath
      => /\ d[p].path.search = "?allow_remote=false" <=> d[p].allowRemote = "false"
         /\ d[p].path.search \in {"", "?allow_remote=false"}
         /\ d[p].allowRemote \in {"true", Undefined}
              => /\ d[p].path.search = ""
                 /\ d[p].path.pathname =
                      EndpointSegments(d[p].endpoint)
                        \o << <<"download">>,
                              encodeURIComponent(d[p].mxcComponents.domain),
                              encodeURIComponent(d[p].mxcComponents.mediaId) >>

\* C20 as stated: for a direct message the result is route.sessionKey with
\* no parent, whatever sessionScope and threadRootId are; for any other
\* message the base key is route.sessionKey under scope "room" or no scope,
\* and "agent:<agentId trimmed and lower-cased, or main when blank>:matrix:main"
\* under scope "agent"; with a trimmed threadRootId that is not empty the
\* result is base + ":thread:" + trimmed threadRootId (case kept) with the
\* base as parent, otherwise the base with no parent.
C20_SessionKeyFromAgentId ==
  sk.evaluated
    => LET params == sk.params
           dm == params.isDirectMessage = "true"
           thread == trim(IF params.threadRootId \in {JsNull, JsUndefined}
                            THEN <<>> ELSE params.threadRootId)
           agent == toLowerCase(trim(params.route.agentId))
           base == IF ~dm /\ params.sessionScope = "agent"
                     THEN MainKeyOf(IF agent = <<>> THEN <<"m", "a", "i", "n">> ELSE agent)
                     ELSE params.route.sessionKey
       IN  IF ~dm /\ thread # <<>>
             THEN /\ sk.result.sessionKey = base \o <<":thread:">> \o thread
                  /\ sk.result.parentSessionKey = base
             ELSE /\ sk.result.sessionKey = base
                  /\ sk.result.parentSessionKey = JsUndefined

\* C21 as stated: with includeMedia = true, media.encrypted is true exactly
\* when the reported media.mxcUrl was taken from content.file.url and false
\* when it was taken from content.url; media is undefined when neither URL
\* is a string and when includeMedia is omitted.
C21_EncryptedIffFromFile ==
  sm.evaluated
    => /\ sm.media.defined
            => /\ sm.opts.includeMedia = "true"
               /\ sm.media.mxcUrl \in {PlainUrl, EncryptedUrl}
               /\ sm.media.encrypted <=> sm.media.mxcUrl = EncryptedUrl
               /\ sm.media.mxcUrl = PlainUrl => sm.content.url = JsString(PlainUrl)
               /\ sm.media.mxcUrl = EncryptedUrl
                    => sm.content.file = [type |-> "object", url |-> JsString(EncryptedUrl)]
       /\ (sm.content.url.type # "string"
             /\ (sm.content.file.type # "object" \/ sm.content.file.url.type # "string"))
            => ~sm.media.defined
       /\ sm.opts.includeMedia = Undefined => ~sm.media.defined


\* C22 as stated: the catch block re-raises an error at once only for an
\* invalid-identifier error, and no such error arises inside the loop: a
\* call that issued a request and failed did so on its final attempt, all
\* maxRetries requests issued, with the exhausted-retries error.
C22_NoEarlyExitInLoop ==
  \A p \in DOMAIN d :
    (d[p].pc = "done" /\ d[p].nReq >= 1 /\ d[p].outcome.kind = "error")
      => /\ d[p].attempt = d[p].maxRetries - 1
         /\ d[p].nReq = d[p].attempt + 1
         /\ d[p].outcome.message # d[p].lastError


\* C23: a call with a valid identifier parses, then probes the versions,
\* then acquires the pool, then makes its attempts; it probes once, not
\* again on a retry and not with an earlier call's answer; every request
\* of the call goes to the prefix and the pool it had before the loop.
C23_StepOrder ==
  /\ [](\A p \in DOMAIN d :
          /\ d[p].pc = "probe"
                => /\ d[p].mxcComponents.ok
                   /\ d[p].agent = NoPool /\ d[p].nReq = 0
          /\ d[p].agent # NoPool => (d[p].probe # NoProbe /\ d[p].endpoint # "")
          /\ d[p].nReq >= 1 => d[p].agent # NoPool
          /\ d[p].pc \notin {"idle", "done"} => d[p].probes = 1
          /\ d[p].probes <= 1
          /\ Len(d[p].requests) = d[p].nReq
          /\ \A i \in 1..Len(d[p].requests) :
                /\ d[p].requests[i].agent = d[p].agent
                /\ d[p].requests[i].path =
                     RequestPath(d[p].endpoint, d[p].mxcComponents.domain,
                                 d[p].mxcComponents.mediaId, d[p].allowRemote))
  /\ [][\A p \in DOMAIN d :
          /\ (d[p].pc \in {"sleep", "request"} /\ d'[p].pc # "idle")
                => /\ d'[p].endpoint = d[p].endpoint
                   /\ d'[p].agent = d[p].agent
                   /\ d'[p].path = d[p].path
                   /\ d'[p].probe = d[p].probe
                   /\ d'[p].probes = d[p].probes
          /\ (d[p].pc = "idle" /\ d'[p].pc # "idle")
                => /\ d'[p].probe = NoProbe /\ d'[p].endpoint = ""
                   /\ d'[p].agent = NoPool /\ d'[p].requests = <<>>
          /\ (d[p].pc = "probe" /\ d'[p].agent # NoPool)
                => d'[p].endpoint = getMediaEndpointPrefix(TRUE, d'[p].probe)]_vars

\* a second call, after a first one, has retried and then got its result
C23_Witness ==
  \E p \in DOMAIN d :
    /\ calls = 2 /\ d[p].pc = "done" /\ d[p].outcome.kind = "result"
    /\ d[p].nReq >= 2 /\ d[p].probes = 1

FinalThrowReached(p) ==
  d[p].pc = "done" /\ d[p].agent # NoPool /\ d[p].attempt >= d[p].maxRetries

C26_PoolIffPositiveCount ==
  /\ sharedAgent = NoPool => agentRefCount = 0
  /\ sharedAgent # NoPool => agentRefCount >= 1


\* C27 as stated: when releaseDownloadAgent is called only for downloads
\* that have ended, at most once for each, a download in progress never
\* has a request out on a closed pool, and the pool it acquired is the
\* singleton, still open, until the download ends.
C27_NoCloseUnderDownload ==
  \A p \in DOMAIN d :
    (InFlight(p) /\ d[p].agent # NoPool)
      => /\ sharedAgent = d[p].agent
         /\ pools[d[p].agent].state = "open"


\* C28: provided every probe, request and backoff sleep settles, every
\* call of downloadContent_v2 ends, with a result or an error, whatever
\* maxRetries is; and the loop never makes two attempts with the same
\* index: the k-th request of a call is made at index k - 1.
C28_CallTerminates ==
  /\ \A p \in Procs : InFlight(p) ~> (d[p].pc = "done" /\ d[p].outcome # NoOutcome)
  /\ [][\A p \in Procs :
          d'[p].nReq > d[p].nReq
            => /\ d'[p].nReq = d[p].nReq + 1
               /\ d'[p].attempt = d[p].nReq
               /\ d'[p].pc = "request"]_vars

\* a call with maxRetries = 2 has ended after two attempts
C28_Witness ==
  \E p \in Procs :
    /\ d[p].pc = "done" /\ d[p].maxRetries = 2 /\ d[p].nReq = 2
    /\ d[p].attempt = 1 /\ d[p].outcome.kind = "error"


\* C29 as stated: the download that downloadMatrixMedia makes for
\* unencrypted media allows the remote fetch, no request of it carrying
\* allow_remote=false, and has a ceiling of 3 attempts.
C29_MediaDownloadAllowsRemote ==
  mediaCall.pc = "download"
    => /\ d[1].maxRetries = 3
       /\ d[1].nReq <= 3
       /\ \A i \in 1..Len(d[1].requests) : d[1].requests[i].path.search = ""

\* C30: saveMediaBuffer is only ever given a buffer of at most maxBytes
\* bytes, from a download or from a decryption; and a declared sizeBytes
\* above maxBytes fails the call with the size-limit error before any
\* download or decryption is started.
C30_SavedWithinLimit ==
  /\ \A i \in 1..Len(mediaCall.saved) : mediaCall.saved[i] <= mediaCall.maxBytes
  /\ mediaCall.pc = "save" => Len(mediaCall.saved) = 1
  /\ (mediaCall.pc # "idle" /\ mediaCall.sizeBytes # NoSize
        /\ mediaCall.sizeBytes > mediaCall.maxBytes)
       => /\ mediaCall.pc = "done" /\ mediaCall.error = SizeLimitMessage
          /\ ~mediaCall.started /\ mediaCall.saved = <<>>
          /\ d[1].pc = "idle" /\ calls = 0 /\ nAcq = 0

\* a downloaded buffer of exactly maxBytes bytes, declared smaller, has
\* been handed to saveMediaBuffer
C30_Witness ==
  /\ mediaCall.pc = "save" /\ ~mediaCall.file
  /\ mediaCall.maxBytes = 1 /\ mediaCall.saved = <<1>> /\ mediaCall.sizeBytes = 0
  /\ nAcq = 1

====
